---------------------------- MODULE Spec2Model ----------------------------
(***************************************************************************)
(* Verification model of the Boost Graph Library examples:                 *)
(*   example/implicit_graph.cpp     the implicit ring graph and the        *)
(*                                  Dijkstra search run over it            *)
(*   example/file_dependencies.cpp  topological sort and the parallel      *)
(*                                  (level) make ordering                  *)
(*                                                                         *)
(* Floating point weights are multiples of one half; they are held as the  *)
(* integer count of halves (0.5 is 1, 2.0 is 4, 4.5 is 9).                 *)
(***************************************************************************)
EXTENDS Integers, Sequences, FiniteSets, TLC

VARIABLES
    n,          \* ring_graph::m_n
    it_u,       \* vertex whose incident edges are being iterated
    oe_pos,     \* base of the out_edges(it_u) iterator
    oe_out,     \* edges yielded so far by out_edges(it_u)
    ie_pos,     \* base of the in_edges(it_u) iterator
    ie_out,     \* edges yielded so far by in_edges(it_u)
    adj_pos,    \* base of the adjacent_vertices(it_u) iterator
    adj_out,    \* vertices yielded so far by adjacent_vertices(it_u)
    e_pos,      \* base of the edges(g) iterator
    e_out,      \* edges yielded so far by edges(g)
    q,          \* result of the last edge(it_u, v, g) call
    deg,        \* result of the last out_degree / in_degree call on it_u
    wq,         \* result of the last get(edge_weight, g, e) calls
    dpc,        \* position of the Dijkstra part of main
    dist,       \* dist vector (halves)
    pred,       \* pred vector
    settled,    \* vertices already taken from the queue
    cur,        \* vertex being examined, its out-edge iterator base
    printed,    \* "Vertex v: parent p, distance d" lines written
    g_n,        \* num_vertices of the file dependency graph g
    g_edges,    \* edges of g in the order they were added
    fpc,        \* position of main of file_dependencies
    color,      \* depth-first search colour of each vertex
    stack,      \* depth-first search stack: vertex and next out-edge
    make_order, \* the list topological_sort front-inserts into
    out_order,  \* the "make ordering" line written
    i_ref,      \* what the iterator i designates
    time,       \* the time vector
    sched_pos,  \* position of the loop over make_order
    reads,      \* time entries read so far, with the value read
    records,    \* lines of kevin-bacon.dat: actor, movie, co-actor
    rec_pos,    \* lines read so far
    actors,     \* the NameVertexMap actors
    actor_name, \* vertex_name property: name of each vertex in index order
    b_edges,    \* edges of the actor graph in the order they were added
    bpc,        \* position of main of kevin-bacon
    bacon_number, \* the bacon_number vector
    src,        \* the source vertex of the search
    b_color,    \* breadth-first search colour of each vertex
    b_queue,    \* breadth-first search queue
    b_cur,      \* vertex being examined and its next out-edge
    tree_count, \* tree_edge events received so far, by target vertex
    has_cycle,  \* the flag the cycle_detector writes
    answers,    \* the answers to "has a cycle?" written so far
    c_n,        \* vertices of the graph whose circuits are enumerated
    c_edges,    \* its arcs in insertion order
    c_mode,     \* "all" or "unique" circuits
    c_start,    \* start vertex of the current round
    c_stack,    \* the path from the start vertex, with the position in each out-list
    c_blocked,  \* blocked vertices
    c_closed,   \* per vertex, the vertices to unblock with it
    c_out,      \* circuits reported so far
    cpc         \* position of the enumeration

ringVars == <<it_u, oe_pos, oe_out, ie_pos, ie_out, adj_pos, adj_out,
              e_pos, e_out, q, deg, wq>>
dijVars  == <<dpc, dist, pred, settled, cur, printed>>
depVars  == <<g_n, g_edges, fpc, color, stack, make_order, out_order,
              i_ref, time, sched_pos>>
bacVars  == <<records, rec_pos, actors, actor_name, b_edges, bpc,
              bacon_number, src, b_color, b_queue, b_cur, tree_count>>
cycVars  == <<has_cycle, answers>>
circVars == <<c_n, c_edges, c_mode, c_start, c_stack, c_blocked, c_closed, c_out, cpc>>
vars     == <<n, ringVars, dijVars, depVars, reads, bacVars, cycVars, circVars>>

-----------------------------------------------------------------------------
(* Bounds *)

\* largest ring size explored
MaxN == 6

\* vertices of the small dependency graphs explored
MaxV == 3

\* most edges of the small dependency graphs explored
MaxE == 3

\* most lines of kevin-bacon.dat explored
MaxRec == 3

\* width of std::size_t
SizeBits == 64

-----------------------------------------------------------------------------
(* std::size_t arithmetic *)

\* 2^k modulo m
Pow2Mod(k, m) ==
    LET p[i \in 0 .. k] == IF i = 0 THEN 1 % m ELSE (2 * p[i - 1]) % m
    IN  p[k]

\* ((size_t) x) % m, for x in (-2^SizeBits, 2^SizeBits)
SizeMod(x, m) == IF x >= 0 THEN x % m ELSE (Pow2Mod(SizeBits, m) + (x % m)) % m

-----------------------------------------------------------------------------
(* ring_graph *)

Vertices(m) == 0 .. (m - 1)

ring_offset == <<1, -1>>

\* base of the end iterator of an incident edge range
IncidentEndNoDegenerate(m) == 2
IncidentEnd(m) == IF m > 2 THEN 2 ELSE 1

\* ring_incident_edge_iterator::dereference without the vertex 0 special case
dereferenceNoWrap(m_n, m_u, p) ==
    <<m_u, SizeMod(m_u + ring_offset[p + 1], m_n)>>
\* ring_incident_edge_iterator::dereference
dereference(m_n, m_u, p) ==
    LET v == IF m_u = 0 /\ p = 1
             THEN m_n - 1
             ELSE SizeMod(m_u + ring_offset[p + 1], m_n)
    IN  <<m_u, v>>

source(e) == e[1]
target(e) == e[2]

out_degree(u) == 2
in_degree(u) == out_degree(u)

\* base of the end iterator of edges(g)
EdgesEndAllVertices(m) == m
EdgesEnd(m) == IF m = 2 THEN 1 ELSE m

\* ring_edge_iterator::dereference
edge_deref(m, p) == dereference(m, p, 0)

num_edges(m) == IF m = 2 THEN 1 ELSE m

NoEdge == <<0, 0>>

\* edge(u, v, g): the descriptor and the found flag
edge(u, v, m) ==
    IF (u = v + 1 \/ v = u + 1) /\ u > 0 /\ u < m /\ v > 0 /\ v < m
    THEN [e |-> <<u, v>>, found |-> TRUE]
    ELSE [e |-> NoEdge, found |-> FALSE]

\* edge_weight_map::operator[] with an integer division
edge_weight_intdiv(e) == ((e[1] + e[2]) \div 2) * 2
\* edge_weight_map::operator[], in halves: the sum as a double, divided by 2.0
edge_weight(e) == ((e[1] + e[2]) * 2) \div 2

-----------------------------------------------------------------------------
(* Clients of the ring graph: the loops of main and the valid expressions  *)
(* of the graph concepts, called on vertices of the graph.                 *)

NoQuery  == [called |-> FALSE, v |-> 0, e |-> NoEdge, found |-> FALSE]
NoDegree == [called |-> FALSE, out |-> 0, in |-> 0]
NoWeight == [called |-> FALSE, e |-> NoEdge, w |-> 0, wrev |-> 0]

RingInit ==
    /\ n \in 1 .. MaxN
    /\ it_u = 0
    /\ oe_pos = 0 /\ oe_out = <<>>
    /\ ie_pos = 0 /\ ie_out = <<>>
    /\ adj_pos = 0 /\ adj_out = <<>>
    /\ e_pos = 0 /\ e_out = <<>>
    /\ q = NoQuery
    /\ deg = NoDegree
    /\ wq = NoWeight

\* out_edges(u, g), in_edges(u, g), adjacent_vertices(u, g): fresh ranges
BeginVertex(u) ==
    /\ u # it_u
    /\ it_u' = u
    /\ oe_pos' = 0 /\ oe_out' = <<>>
    /\ ie_pos' = 0 /\ ie_out' = <<>>
    /\ adj_pos' = 0 /\ adj_out' = <<>>
    /\ q' = NoQuery
    /\ deg' = NoDegree
    /\ wq' = NoWeight
    /\ UNCHANGED <<cycVars, circVars, n, e_pos, e_out, dijVars, depVars, reads, bacVars>>

\* one round of: for (edge : out_edges(u, g))
OutEdgeStep ==
    /\ oe_pos # IncidentEnd(n)
    /\ oe_out' = Append(oe_out, dereference(n, it_u, oe_pos))
    /\ oe_pos' = oe_pos + 1
    /\ UNCHANGED <<cycVars, circVars, n, it_u, ie_pos, ie_out, adj_pos, adj_out, e_pos, e_out,
                   q, deg, wq, dijVars, depVars, reads, bacVars>>

\* one round of a loop over in_edges(u, g), which is out_edges(u, g)
InEdgeStep ==
    /\ ie_pos # IncidentEnd(n)
    /\ ie_out' = Append(ie_out, dereference(n, it_u, ie_pos))
    /\ ie_pos' = ie_pos + 1
    /\ UNCHANGED <<cycVars, circVars, n, it_u, oe_pos, oe_out, adj_pos, adj_out, e_pos, e_out,
                   q, deg, wq, dijVars, depVars, reads, bacVars>>

\* one round of: for (vertex : adjacent_vertices(u, g))
AdjStep ==
    /\ adj_pos # IncidentEnd(n)
    /\ adj_out' = Append(adj_out, target(dereference(n, it_u, adj_pos)))
    /\ adj_pos' = adj_pos + 1
    /\ UNCHANGED <<cycVars, circVars, n, it_u, oe_pos, oe_out, ie_pos, ie_out, e_pos, e_out,
                   q, deg, wq, dijVars, depVars, reads, bacVars>>

\* one round of: for (e : edges(g)) print e and get(edge_weight, g, e)
EdgesStep ==
    /\ e_pos # EdgesEnd(n)
    /\ LET e == edge_deref(n, e_pos)
       IN  e_out' = Append(e_out, [e |-> e, w |-> edge_weight(e)])
    /\ e_pos' = e_pos + 1
    /\ UNCHANGED <<cycVars, circVars, n, it_u, oe_pos, oe_out, ie_pos, ie_out, adj_pos, adj_out,
                   q, deg, wq, dijVars, depVars, reads, bacVars>>

\* edge(it_u, v, g)
EdgeQuery(v) ==
    /\ LET r == edge(it_u, v, n)
       IN  q' = [called |-> TRUE, v |-> v, e |-> r.e, found |-> r.found]
    /\ UNCHANGED <<cycVars, circVars, n, it_u, oe_pos, oe_out, ie_pos, ie_out, adj_pos, adj_out,
                   e_pos, e_out, deg, wq, dijVars, depVars, reads, bacVars>>

\* out_degree(it_u, g) and in_degree(it_u, g)
DegreeQuery ==
    /\ deg' = [called |-> TRUE, out |-> out_degree(it_u), in |-> in_degree(it_u)]
    /\ UNCHANGED <<cycVars, circVars, n, it_u, oe_pos, oe_out, ie_pos, ie_out, adj_pos, adj_out,
                   e_pos, e_out, q, wq, dijVars, depVars, reads, bacVars>>

\* get(edge_weight, g, (it_u, v)) and get(edge_weight, g, (v, it_u))
WeightQuery(v) ==
    /\ wq' = [called |-> TRUE, e |-> <<it_u, v>>,
              w |-> edge_weight(<<it_u, v>>), wrev |-> edge_weight(<<v, it_u>>)]
    /\ UNCHANGED <<cycVars, circVars, n, it_u, oe_pos, oe_out, ie_pos, ie_out, adj_pos, adj_out,
                   e_pos, e_out, q, deg, dijVars, depVars, reads, bacVars>>

DijIdle ==
    /\ dpc = "idle"
    /\ dist = <<>>
    /\ pred = <<>>
    /\ settled = {}
    /\ cur = [u |-> 0, pos |-> 0]
    /\ printed = <<>>

DepIdle ==
    /\ g_n = 0
    /\ g_edges = <<>>
    /\ fpc = "idle"
    /\ color = <<>>
    /\ stack = <<>>
    /\ make_order = <<>>
    /\ out_order = <<>>
    /\ i_ref = [read |-> FALSE, at |-> 0]
    /\ time = <<>>
    /\ sched_pos = 0
    /\ reads = {}

BacIdle ==
    /\ records = <<>>
    /\ rec_pos = 0
    /\ actors = <<>>
    /\ actor_name = <<>>
    /\ b_edges = <<>>
    /\ bpc = "idle"
    /\ bacon_number = <<>>
    /\ src = 0
    /\ b_color = <<>>
    /\ b_queue = <<>>
    /\ b_cur = [u |-> 0, pos |-> 0]
    /\ tree_count = <<>>

CycIdle ==
    /\ has_cycle = FALSE
    /\ answers = <<>>

CircIdle ==
    /\ c_n = 0
    /\ c_edges = <<>>
    /\ c_mode = "all"
    /\ c_start = 0
    /\ c_stack = <<>>
    /\ c_blocked = {}
    /\ c_closed = <<>>
    /\ c_out = <<>>
    /\ cpc = "idle"

InitRing == RingInit /\ DijIdle /\ DepIdle /\ BacIdle /\ CycIdle /\ CircIdle

NextRing ==
    \/ \E u \in Vertices(n) : BeginVertex(u)
    \/ OutEdgeStep
    \/ InEdgeStep
    \/ AdjStep
    \/ EdgesStep
    \/ \E v \in Vertices(n) : EdgeQuery(v)
    \/ DegreeQuery
    \/ \E v \in Vertices(n) : WeightQuery(v)

SpecRing == InitRing /\ [][NextRing]_vars

-----------------------------------------------------------------------------
(* Properties of the ring graph *)

OutEdgesDone == oe_pos = IncidentEnd(n)
InEdgesDone  == ie_pos = IncidentEnd(n)
AdjDone      == adj_pos = IncidentEnd(n)
EdgesDone    == e_pos = EdgesEnd(n)

SeqRange(s) == {s[i] : i \in 1 .. Len(s)}

\* C1: edge(u, v, g) returns found = true exactly when (u, v) is one of the
\* edges yielded by out_edges(u, g), and then the descriptor is (u, v).
C1_EdgeAgreesWithOutEdges ==
    (q.called /\ OutEdgesDone) =>
        /\ q.found <=> (<<it_u, q.v>> \in SeqRange(oe_out))
        /\ q.found => q.e = <<it_u, q.v>>

\* C2: out_degree(u, g) is the number of edges yielded by out_edges(u, g)
\* and in_degree(u, g) the number yielded by in_edges(u, g), for every n >= 1.
C2_DegreeIsRangeLength ==
    /\ (deg.called /\ OutEdgesDone) => deg.out = Len(oe_out)
    /\ (deg.called /\ InEdgesDone) => deg.in = Len(ie_out)

\* the out-edges the ring topology gives vertex u
RingOutEdges(m, u) ==
    IF m = 1 THEN << <<0, 0>> >>
    ELSE IF m = 2 THEN << <<u, 1 - u>> >>
    ELSE << <<u, (u + 1) % m>>, <<u, (u + m - 1) % m>> >>

\* C3: out_edges(u, g) yields (u, (u+1) mod n) then (u, (u-1) mod n) for
\* n >= 3, the self-loop for n = 1, the one edge to the other vertex for
\* n = 2; every target is a vertex; adjacent_vertices(u, g) yields the
\* targets of those edges in the same order.
C3_OutEdgesOfRing ==
    /\ \A i \in 1 .. Len(oe_out) :
          /\ oe_out[i] = RingOutEdges(n, it_u)[i]
          /\ target(oe_out[i]) \in Vertices(n)
    /\ OutEdgesDone => oe_out = RingOutEdges(n, it_u)
    /\ (OutEdgesDone /\ AdjDone) =>
          adj_out = [i \in 1 .. Len(oe_out) |-> target(oe_out[i])]

\* C3 witness: both edges of vertex 0 of a ring of three or more vertices,
\* the second wrapping around, and its adjacent vertices, have been yielded.
C3_Witness ==
    /\ n >= 3 /\ it_u = 0
    /\ OutEdgesDone /\ AdjDone
    /\ Len(oe_out) = 2 /\ Len(adj_out) = 2

Ends(e) == {e[1], e[2]}

\* C4: edges(g) yields the first out-edge of each vertex in index order
\* (only vertex 0's for n = 2), every undirected ring edge exactly once, and
\* as many edges as num_edges(g): n for n >= 3, 1 for n = 2 and n = 1.
C4_EdgesOncePerRingEdge ==
    /\ \A i \in 1 .. Len(e_out) : e_out[i].e = <<i - 1, i % n>>
    /\ \A i, j \in 1 .. Len(e_out) :
          i # j => Ends(e_out[i].e) # Ends(e_out[j].e)
    /\ EdgesDone =>
          /\ Len(e_out) = num_edges(n)
          /\ Len(e_out) = IF n >= 3 THEN n ELSE 1
          /\ \A u \in Vertices(n) :
                \E i \in 1 .. Len(e_out) : Ends(e_out[i].e) = {u, (u + 1) % n}

\* C4 witness: the edge range of the two-vertex ring is exhausted after its
\* single edge.
C4_Witness == n = 2 /\ EdgesDone /\ Len(e_out) = 1

\* C6: the weight of edge (s, t) is (s + t) / 2, that is s + t halves; an
\* edge and its reverse weigh the same; for n = 5, edges(g) yields
\* (0,1)/0.5, (1,2)/1.5, (2,3)/2.5, (3,4)/3.5, (4,0)/2.0.
C6_WeightIsEndpointAverage ==
    /\ wq.called => (wq.w = wq.e[1] + wq.e[2] /\ wq.wrev = wq.w)
    /\ \A i \in 1 .. Len(e_out) : e_out[i].w = e_out[i].e[1] + e_out[i].e[2]
    /\ (n = 5 /\ EdgesDone) =>
          e_out = << [e |-> <<0, 1>>, w |-> 1], [e |-> <<1, 2>>, w |-> 3],
                     [e |-> <<2, 3>>, w |-> 5], [e |-> <<3, 4>>, w |-> 7],
                     [e |-> <<4, 0>>, w |-> 4] >>

\* C6 witness: all five edges of the ring of five have been yielded with
\* their weights, and an edge of odd endpoint sum was read in both directions.
C6_Witness ==
    /\ n = 5 /\ EdgesDone /\ Len(e_out) = 5
    /\ wq.called /\ (wq.e[1] + wq.e[2]) % 2 = 1

-----------------------------------------------------------------------------
(* main: the Dijkstra search from vertex 0 over the ring graph.  The search *)
(* itself (dijkstra_shortest_paths) follows its description: tentative      *)
(* distance and predecessor per vertex, settle the unsettled vertex of      *)
(* least tentative distance, relax each of its out-edges.                   *)

\* stands for the largest double: above the weight of every path (halves)
Inf == 4 * MaxN * MaxN + 1

\* an undefined predecessor: no vertex of the graph
Undef(m) == m

dij_source == 0

RingIdle ==
    /\ it_u = 0
    /\ oe_pos = 0 /\ oe_out = <<>>
    /\ ie_pos = 0 /\ ie_out = <<>>
    /\ adj_pos = 0 /\ adj_out = <<>>
    /\ e_pos = 0 /\ e_out = <<>>
    /\ q = NoQuery
    /\ deg = NoDegree
    /\ wq = NoWeight

\* std::vector pred(num_vertices(g)), dist(num_vertices(g)): zeroes
DijMainInit ==
    /\ dpc = "start"
    /\ dist = [v \in Vertices(n) |-> 0]
    /\ pred = [v \in Vertices(n) |-> 0]
    /\ settled = {}
    /\ cur = [u |-> 0, pos |-> 0]
    /\ printed = <<>>

\* entry of dijkstra_shortest_paths: (infinity, undefined), source (0, source)
DijStart ==
    /\ dpc = "start"
    /\ n > 0
    /\ dist' = [v \in Vertices(n) |-> IF v = dij_source THEN 0 ELSE Inf]
    /\ pred' = [v \in Vertices(n) |-> IF v = dij_source THEN dij_source
                                                          ELSE Undef(n)]
    /\ dpc' = "loop"
    /\ UNCHANGED <<cycVars, circVars, n, ringVars, depVars, reads, bacVars, settled, cur, printed>>

\* settle the unsettled vertex of least tentative distance
Settle(u) ==
    /\ dpc = "loop"
    /\ u \notin settled
    /\ \A v \in Vertices(n) \ settled : dist[u] <= dist[v]
    /\ settled' = settled \cup {u}
    /\ cur' = [u |-> u, pos |-> 0]
    /\ dpc' = "relax"
    /\ UNCHANGED <<cycVars, circVars, n, ringVars, depVars, reads, bacVars, dist, pred, printed>>

\* relax the next out-edge (u, v) of the vertex just settled
Relax ==
    /\ dpc = "relax"
    /\ cur.pos # IncidentEnd(n)
    /\ LET e == dereference(n, cur.u, cur.pos)
           v == target(e)
           d == dist[source(e)] + edge_weight(e)
       IN  IF d < dist[v]
           THEN /\ dist' = [dist EXCEPT ![v] = d]
                /\ pred' = [pred EXCEPT ![v] = source(e)]
           ELSE UNCHANGED <<cycVars, circVars, dist, pred>>
    /\ cur' = [cur EXCEPT !.pos = cur.pos + 1]
    /\ UNCHANGED <<cycVars, circVars, n, ringVars, depVars, reads, bacVars, dpc, settled, printed>>

\* the out-edges of the settled vertex are exhausted
RelaxDone ==
    /\ dpc = "relax"
    /\ cur.pos = IncidentEnd(n)
    /\ dpc' = "loop"
    /\ UNCHANGED <<cycVars, circVars, n, ringVars, depVars, reads, bacVars, dist, pred, settled, cur, printed>>

\* every vertex is settled: dijkstra_shortest_paths returns
DijReturn ==
    /\ dpc = "loop"
    /\ settled = Vertices(n)
    /\ dpc' = "print"
    /\ UNCHANGED <<cycVars, circVars, n, ringVars, depVars, reads, bacVars, dist, pred, settled, cur, printed>>

\* one round of the loop printing parent and distance of each vertex
PrintVertex ==
    /\ dpc = "print"
    /\ LET v == Len(printed)
       IN  /\ printed' = Append(printed,
                            [vertex |-> v, parent |-> pred[v], distance |-> dist[v]])
           /\ dpc' = IF v + 1 = n THEN "done" ELSE "print"
    /\ UNCHANGED <<cycVars, circVars, n, ringVars, depVars, reads, bacVars, dist, pred, settled, cur>>

InitDijkstra ==
    n \in 1 .. MaxN /\ RingIdle /\ DijMainInit /\ DepIdle /\ BacIdle /\ CycIdle /\ CircIdle

NextDijkstra ==
    \/ DijStart
    \/ \E u \in Vertices(n) : Settle(u)
    \/ Relax
    \/ RelaxDone
    \/ DijReturn
    \/ PrintVertex

\* main runs to its end: no step of it is postponed forever
SpecDijkstra == InitDijkstra /\ [][NextDijkstra]_vars /\ WF_vars(NextDijkstra)

-----------------------------------------------------------------------------
(* Properties of the Dijkstra search *)

\* weight (halves) of the ring edge between a and b
RingWeight(a, b) == a + b

RECURSIVE ClockwiseWeight(_)
\* weight of the path 0, 1, ..., v
ClockwiseWeight(v) ==
    IF v = 0 THEN 0 ELSE ClockwiseWeight(v - 1) + RingWeight(v - 1, v)

RECURSIVE DownWeight(_, _)
\* weight of the path m - 1, m - 2, ..., v
DownWeight(m, v) ==
    IF v >= m - 1 THEN 0 ELSE DownWeight(m, v + 1) + RingWeight(v + 1, v)

\* weight of the path 0, n - 1, n - 2, ..., v
CounterWeight(m, v) == RingWeight(0, m - 1) + DownWeight(m, v)

MinOf(a, b) == IF a <= b THEN a ELSE b

ShortestRingWeight(m, v) ==
    IF v = 0 THEN 0 ELSE MinOf(ClockwiseWeight(v), CounterWeight(m, v))

RingAdjacent(m, a, b) == b = (a + 1) % m \/ a = (b + 1) % m

RECURSIVE PredPathOK(_, _)
\* following pred from v reaches vertex 0 within k ring edges
PredPathOK(v, k) ==
    IF v = 0 THEN TRUE
    ELSE /\ k > 0
         /\ pred[v] \in Vertices(n)
         /\ RingAdjacent(n, pred[v], v)
         /\ PredPathOK(pred[v], k - 1)

RECURSIVE PredPathWeight(_, _)
\* weight of the path that following pred from v walks
PredPathWeight(v, k) ==
    IF v = 0 \/ k = 0 THEN 0
    ELSE RingWeight(pred[v], v) + PredPathWeight(pred[v], k - 1)

DijReturned == dpc \in {"print", "done"}

DijResultOK ==
    DijReturned =>
        /\ pred[0] = 0
        /\ \A v \in Vertices(n) :
              /\ dist[v] = ShortestRingWeight(n, v)
              /\ PredPathOK(v, n)
              /\ PredPathWeight(v, n) = dist[v]
        /\ n = 5 =>
              /\ [i \in 1 .. 5 |-> dist[i - 1]] = <<0, 1, 4, 9, 4>>
              /\ [i \in 1 .. 5 |-> pred[i - 1]] = <<0, 0, 1, 2, 0>>

\* C5: Dijkstra from vertex 0 on the ring terminates; dist[v] is then the
\* least weight of the two ring paths from 0 to v, following pred from v
\* reaches 0 along a path of weight dist[v], pred[0] = 0; for n = 5 the
\* distances are [0, 0.5, 2.0, 4.5, 2.0] and the predecessors [0, 0, 1, 2, 0].
C5_DijkstraOnRing == <>(dpc = "done") /\ []DijResultOK

\* C5 witness: the search over the ring of five has returned and vertex 4
\* was reached over the wraparound edge.
C5_Witness == n = 5 /\ dpc = "done" /\ pred[4] = 0 /\ Len(printed) = 5

-----------------------------------------------------------------------------
(* file_dependencies: the dependency graph, topological_sort and the       *)
(* parallel make ordering.  The graph (adjacency_list, bidirectional) and   *)
(* topological_sort follow their descriptions: edges are appended and show  *)
(* in the incidence lists of both endpoints; the sort is a depth-first      *)
(* search that records a vertex when it finishes and reports a back edge.   *)

dax_h == 0
yow_h == 1
boz_h == 2
zow_h == 3
foo_cpp == 4
foo_o == 5
bar_cpp == 6
bar_o == 7
libfoobar_a == 8
zig_cpp == 9
zig_o == 10
zag_cpp == 11
zag_o == 12
libzigzag_a == 13
killerapp == 14
N == 15

used_by ==
    << <<dax_h, foo_cpp>>, <<dax_h, bar_cpp>>, <<dax_h, yow_h>>,
       <<yow_h, bar_cpp>>, <<yow_h, zag_cpp>>,
       <<boz_h, bar_cpp>>, <<boz_h, zig_cpp>>, <<boz_h, zag_cpp>>,
       <<zow_h, foo_cpp>>,
       <<foo_cpp, foo_o>>,
       <<foo_o, libfoobar_a>>,
       <<bar_cpp, bar_o>>,
       <<bar_o, libfoobar_a>>,
       <<libfoobar_a, libzigzag_a>>,
       <<zig_cpp, zig_o>>,
       <<zig_o, libzigzag_a>>,
       <<zag_cpp, zag_o>>,
       <<zag_o, libzigzag_a>>,
       <<libzigzag_a, killerapp>> >>

\* edge lists of the small graphs: Graph g(first, last, MaxV)
SmallEdgeLists ==
    UNION {[1 .. k -> Vertices(MaxV) \X Vertices(MaxV)] : k \in 0 .. MaxE}

\* out_edges(u, g) and in_edges(v, g) of the stored graph, in insertion order
OutEdgesOf(u) == SelectSeq(g_edges, LAMBDA e : source(e) = u)
InEdgesOf(v) == SelectSeq(g_edges, LAMBDA e : target(e) = v)

\* the event a depth-first search raises for an edge, by the target's colour
EdgeEventNoBack(c) == IF c = "white" THEN "tree" ELSE "forward_or_cross"
EdgeEvent(c) ==
    IF c = "white" THEN "tree"
    ELSE IF c = "gray" THEN "back"
    ELSE "forward_or_cross"

\* std::back_inserter in place of std::front_inserter
back_insert(l, v) == Append(l, v)
\* *std::front_inserter(make_order)++ = v
front_insert(l, v) == <<v>> \o l

DepInit ==
    /\ \/ g_n = N /\ g_edges = used_by
       \/ g_n = MaxV /\ g_edges \in SmallEdgeLists
    /\ fpc = "topo"
    /\ color = [v \in Vertices(g_n) |-> "white"]
    /\ stack = <<>>
    /\ make_order = <<>>
    /\ out_order = <<>>
    /\ i_ref = [read |-> FALSE, at |-> 0]
    /\ time = <<>>
    /\ sched_pos = 0
    /\ reads = {}

WhiteVertices == {v \in Vertices(g_n) : color[v] = "white"}
Least(S) == CHOOSE x \in S : \A y \in S : x <= y

Top == stack[Len(stack)]
TopEdge == OutEdgesOf(Top.u)[Top.pos]
TopHasEdge == stack # <<>> /\ Top.pos <= Len(OutEdgesOf(Top.u))

\* start a visit at the first undiscovered vertex
TopoRoot ==
    /\ fpc = "topo"
    /\ stack = <<>>
    /\ WhiteVertices # {}
    /\ LET u == Least(WhiteVertices)
       IN  /\ color' = [color EXCEPT ![u] = "gray"]
           /\ stack' = <<[u |-> u, pos |-> 1]>>
    /\ UNCHANGED <<cycVars, circVars, n, ringVars, dijVars, bacVars, reads, g_n, g_edges, fpc, make_order,
                   out_order, i_ref, time, sched_pos>>

\* tree edge: visit the undiscovered target before going on
TopoTreeEdge ==
    /\ fpc = "topo"
    /\ TopHasEdge
    /\ EdgeEvent(color[target(TopEdge)]) = "tree"
    /\ color' = [color EXCEPT ![target(TopEdge)] = "gray"]
    /\ stack' = Append([stack EXCEPT ![Len(stack)].pos = Top.pos + 1],
                       [u |-> target(TopEdge), pos |-> 1])
    /\ UNCHANGED <<cycVars, circVars, n, ringVars, dijVars, bacVars, reads, g_n, g_edges, fpc, make_order,
                   out_order, i_ref, time, sched_pos>>

\* back edge: topological_sort throws not_a_dag, which main does not catch
TopoBackEdge ==
    /\ fpc = "topo"
    /\ TopHasEdge
    /\ EdgeEvent(color[target(TopEdge)]) = "back"
    /\ fpc' = "aborted"
    /\ UNCHANGED <<cycVars, circVars, n, ringVars, dijVars, bacVars, reads, g_n, g_edges, color, stack,
                   make_order, out_order, i_ref, time, sched_pos>>

\* forward or cross edge: nothing to do
TopoOtherEdge ==
    /\ fpc = "topo"
    /\ TopHasEdge
    /\ EdgeEvent(color[target(TopEdge)]) = "forward_or_cross"
    /\ stack' = [stack EXCEPT ![Len(stack)].pos = Top.pos + 1]
    /\ UNCHANGED <<cycVars, circVars, n, ringVars, dijVars, bacVars, reads, g_n, g_edges, fpc, color,
                   make_order, out_order, i_ref, time, sched_pos>>

\* finish vertex: record it through the front inserter
TopoFinish ==
    /\ fpc = "topo"
    /\ stack # <<>>
    /\ ~TopHasEdge
    /\ color' = [color EXCEPT ![Top.u] = "black"]
    /\ make_order' = front_insert(make_order, Top.u)
    /\ stack' = SubSeq(stack, 1, Len(stack) - 1)
    /\ UNCHANGED <<cycVars, circVars, n, ringVars, dijVars, bacVars, reads, g_n, g_edges, fpc, out_order,
                   i_ref, time, sched_pos>>

\* topological_sort returns; main writes the make ordering and creates time
TopoReturn ==
    /\ fpc = "topo"
    /\ stack = <<>>
    /\ WhiteVertices = {}
    /\ out_order' = make_order
    /\ time' = [v \in Vertices(g_n) |-> 0]
    /\ sched_pos' = 1
    /\ fpc' = "sched"
    /\ UNCHANGED <<cycVars, circVars, n, ringVars, dijVars, bacVars, reads, g_n, g_edges, color, stack,
                   make_order, i_ref>>

Max(S) == CHOOSE x \in S : \A y \in S : y <= x

\* maxdist after the walk through the in-edges of vertex
MaxDist(vertex) ==
    Max({0} \cup {time[source(InEdgesOf(vertex)[k])] :
                     k \in 1 .. Len(InEdgesOf(vertex))})

SchedVertex == make_order[sched_pos]
SchedInLoop == fpc = "sched" /\ sched_pos <= Len(make_order)

\* what *i may designate: the iterator i is declared and never assigned; a
\* first use fixes what it designates, g_n standing for nothing readable
IRefChoices == IF i_ref.read THEN {i_ref.at} ELSE 0 .. g_n

\* the time entries the walk through the in-edges of vertex reads
ReadsOf(vertex) ==
    {[v |-> source(InEdgesOf(vertex)[k]), val |-> time[source(InEdgesOf(vertex)[k])]] :
        k \in 1 .. Len(InEdgesOf(vertex))}

\* a round of the loop for a vertex without in-edges
SchedSkip ==
    /\ SchedInLoop
    /\ Len(InEdgesOf(SchedVertex)) = 0
    /\ sched_pos' = sched_pos + 1
    /\ UNCHANGED <<cycVars, circVars, n, ringVars, dijVars, bacVars, reads, g_n, g_edges, fpc, color, stack,
                   make_order, out_order, i_ref, time>>

\* a round of the loop for a vertex with in-edges: time[*i] = maxdist + 1
SchedWrite(k) ==
    /\ SchedInLoop
    /\ Len(InEdgesOf(SchedVertex)) > 0
    /\ k \in IRefChoices
    /\ k < g_n
    /\ i_ref' = [read |-> TRUE, at |-> k]
    /\ reads' = reads \cup ReadsOf(SchedVertex)
    /\ time' = [time EXCEPT ![k] = MaxDist(SchedVertex) + 1]
    /\ sched_pos' = sched_pos + 1
    /\ UNCHANGED <<cycVars, circVars, n, ringVars, dijVars, bacVars, g_n, g_edges, fpc, color, stack,
                   make_order, out_order>>

\* the same round when *i cannot be read: the program stops
SchedCrash ==
    /\ SchedInLoop
    /\ Len(InEdgesOf(SchedVertex)) > 0
    /\ g_n \in IRefChoices
    /\ i_ref' = [read |-> TRUE, at |-> g_n]
    /\ reads' = reads \cup ReadsOf(SchedVertex)
    /\ fpc' = "crashed"
    /\ UNCHANGED <<cycVars, circVars, n, ringVars, dijVars, bacVars, g_n, g_edges, color, stack,
                   make_order, out_order, time, sched_pos>>

\* the loop is over: the time slots are written
SchedDone ==
    /\ fpc = "sched"
    /\ sched_pos > Len(make_order)
    /\ fpc' = "done"
    /\ UNCHANGED <<cycVars, circVars, n, ringVars, dijVars, bacVars, reads, g_n, g_edges, color, stack,
                   make_order, out_order, i_ref, time, sched_pos>>

InitDeps == n = 0 /\ RingIdle /\ DijIdle /\ DepInit /\ BacIdle /\ CycIdle /\ CircIdle

NextDeps ==
    \/ TopoRoot
    \/ TopoTreeEdge
    \/ TopoBackEdge
    \/ TopoOtherEdge
    \/ TopoFinish
    \/ TopoReturn
    \/ SchedSkip
    \/ \E k \in Vertices(g_n) : SchedWrite(k)
    \/ SchedCrash
    \/ SchedDone

SpecDeps == InitDeps /\ [][NextDeps]_vars

-----------------------------------------------------------------------------
(* Properties of topological_sort and of the parallel make ordering *)

EdgeSet == SeqRange(g_edges)

Successors(S) == {target(e) : e \in {d \in EdgeSet : source(d) \in S}}

RECURSIVE Closure(_, _)
\* S with everything reached from it over at most k edges
Closure(S, k) == IF k = 0 THEN S ELSE Closure(S \cup Successors(S), k - 1)

\* vertices reached from v over one or more edges
ReachedFrom(v) == Closure(Successors({v}), g_n)

HasCycle == \E v \in Vertices(g_n) : v \in ReachedFrom(v)

\* position of vertex v in the sequence l, 0 if absent
PosIn(l, v) ==
    IF \E k \in 1 .. Len(l) : l[k] = v
    THEN CHOOSE k \in 1 .. Len(l) : l[k] = v
    ELSE 0

TopoReturned == fpc \in {"sched", "done", "crashed"}

\* the level of vertex v from the levels stored so far
LevelOf(v) == IF Len(InEdgesOf(v)) = 0 THEN 0 ELSE 1 + MaxDist(v)

\* C7: each round of the level scheduling loop stores, for the vertex v it
\* processes, 1 + max(level[u]) over the in-edges (u, v), or 0 without
\* in-edges, in the entry of v, and writes no other entry.
C7_LevelStoredAtVertex ==
    [][SchedInLoop => time' = [time EXCEPT ![SchedVertex] = LevelOf(SchedVertex)]]_vars

\* C8: after level scheduling, level[v] > level[u] for every edge (u, v)
\* and every vertex without in-edges has level 0.
C8_LevelsIncreaseAlongEdges ==
    fpc = "done" =>
        /\ \A e \in EdgeSet : time[target(e)] > time[source(e)]
        /\ \A v \in Vertices(g_n) : Len(InEdgesOf(v)) = 0 => time[v] = 0

\* C9: on a directed acyclic graph topological_sort returns an ordering in
\* which every vertex occurs exactly once and u precedes v for every edge
\* (u, v); on the file dependency graph dax.h precedes foo.cpp precedes
\* foo.o precedes libfoobar.a precedes killerapp.
C9_TopologicalOrder ==
    /\ (~HasCycle /\ fpc # "topo") => TopoReturned
    /\ TopoReturned =>
          /\ out_order = make_order
          /\ Len(make_order) = g_n
          /\ \A v \in Vertices(g_n) : PosIn(make_order, v) > 0
          /\ \A e \in EdgeSet :
                PosIn(make_order, source(e)) < PosIn(make_order, target(e))
          /\ g_edges = used_by =>
                /\ PosIn(make_order, dax_h) < PosIn(make_order, foo_cpp)
                /\ PosIn(make_order, foo_cpp) < PosIn(make_order, foo_o)
                /\ PosIn(make_order, foo_o) < PosIn(make_order, libfoobar_a)
                /\ PosIn(make_order, libfoobar_a) < PosIn(make_order, killerapp)

\* C9 witness: topological_sort has returned on the file dependency graph.
C9_Witness == g_edges = used_by /\ TopoReturned /\ Len(out_order) = N

OnStack(v) == \E k \in 1 .. Len(stack) : stack[k].u = v

\* C10: on a graph with a cycle topological_sort ends with the
\* CycleDetected outcome, at an edge to a vertex on the active recursion
\* stack, and no ordering reaches the caller.
C10_CycleDetected ==
    /\ HasCycle => (~TopoReturned /\ out_order = <<>>)
    /\ (HasCycle /\ stack = <<>>) => WhiteVertices # {}
    /\ fpc = "aborted" => (HasCycle /\ TopHasEdge /\ OnStack(target(TopEdge)))

\* C10 witness: the sort stopped at a back edge that closes a cycle through
\* more than one vertex.
C10_Witness ==
    /\ fpc = "aborted"
    /\ target(TopEdge) # Top.u
    /\ out_order = <<>>

\* C16: every time entry read through an in-edge belongs to a vertex that
\* came earlier in the make order, and it still holds the value that was
\* read: no time entry is written again after it has been read.
C16_ReadEntriesAreFinal ==
    TopoReturned =>
        \A r \in reads :
            /\ PosIn(make_order, r.v) < sched_pos
            /\ time[r.v] = r.val

-----------------------------------------------------------------------------
(* Cycle detection of file_dependencies.cpp: depth_first_search with the
   cycle_detector visitor, before and after add_edge(bar_cpp, dax_h, g) *)

\* edge lists that leave room for the added edge
EdgeListsBeforeAdd == {l \in SmallEdgeLists : Len(l) < MaxE}

\* a cycle_detector that ignores back edges
back_edge_ignored(flag) == flag
\* cycle_detector::back_edge: m_has_cycle = true
back_edge(flag) == TRUE

\* the graph as built, bool has_cycle = false, and every vertex white
CycInit ==
    /\ \/ g_n = N /\ g_edges = used_by
       \/ g_n = MaxV /\ g_edges \in EdgeListsBeforeAdd
    /\ fpc = "cyc"
    /\ color = [v \in Vertices(g_n) |-> "white"]
    /\ stack = <<>>
    /\ has_cycle = FALSE
    /\ answers = <<>>
    /\ make_order = <<>>
    /\ out_order = <<>>
    /\ i_ref = [read |-> FALSE, at |-> 0]
    /\ time = <<>>
    /\ sched_pos = 0
    /\ reads = {}

\* start a visit at the first undiscovered vertex
CycRoot ==
    /\ fpc = "cyc"
    /\ stack = <<>>
    /\ WhiteVertices # {}
    /\ LET u == Least(WhiteVertices)
       IN  /\ color' = [color EXCEPT ![u] = "gray"]
           /\ stack' = <<[u |-> u, pos |-> 1]>>
    /\ UNCHANGED <<circVars, cycVars, n, ringVars, dijVars, bacVars, reads, g_n, g_edges,
                   fpc, make_order, out_order, i_ref, time, sched_pos>>

\* tree edge: visit the undiscovered target before going on
CycTreeEdge ==
    /\ fpc = "cyc"
    /\ TopHasEdge
    /\ EdgeEvent(color[target(TopEdge)]) = "tree"
    /\ color' = [color EXCEPT ![target(TopEdge)] = "gray"]
    /\ stack' = Append([stack EXCEPT ![Len(stack)].pos = Top.pos + 1],
                       [u |-> target(TopEdge), pos |-> 1])
    /\ UNCHANGED <<circVars, cycVars, n, ringVars, dijVars, bacVars, reads, g_n, g_edges,
                   fpc, make_order, out_order, i_ref, time, sched_pos>>

\* back edge: the visitor sets the flag and the search goes on
CycBackEdge ==
    /\ fpc = "cyc"
    /\ TopHasEdge
    /\ EdgeEvent(color[target(TopEdge)]) = "back"
    /\ has_cycle' = back_edge(has_cycle)
    /\ stack' = [stack EXCEPT ![Len(stack)].pos = Top.pos + 1]
    /\ UNCHANGED <<circVars, answers, n, ringVars, dijVars, bacVars, reads, g_n, g_edges,
                   fpc, color, make_order, out_order, i_ref, time, sched_pos>>

\* forward or cross edge: nothing to do
CycOtherEdge ==
    /\ fpc = "cyc"
    /\ TopHasEdge
    /\ EdgeEvent(color[target(TopEdge)]) = "forward_or_cross"
    /\ stack' = [stack EXCEPT ![Len(stack)].pos = Top.pos + 1]
    /\ UNCHANGED <<circVars, cycVars, n, ringVars, dijVars, bacVars, reads, g_n, g_edges,
                   fpc, color, make_order, out_order, i_ref, time, sched_pos>>

\* finish vertex
CycFinish ==
    /\ fpc = "cyc"
    /\ stack # <<>>
    /\ ~TopHasEdge
    /\ color' = [color EXCEPT ![Top.u] = "black"]
    /\ stack' = SubSeq(stack, 1, Len(stack) - 1)
    /\ UNCHANGED <<circVars, cycVars, n, ringVars, dijVars, bacVars, reads, g_n, g_edges,
                   fpc, make_order, out_order, i_ref, time, sched_pos>>

\* depth_first_search returns; main writes the answer
CycReturn ==
    /\ fpc = "cyc"
    /\ stack = <<>>
    /\ WhiteVertices = {}
    /\ answers' = Append(answers, has_cycle)
    /\ fpc' = IF answers = <<>> THEN "add" ELSE "end"
    /\ UNCHANGED <<circVars, has_cycle, n, ringVars, dijVars, bacVars, reads, g_n, g_edges,
                   color, stack, make_order, out_order, i_ref, time, sched_pos>>

\* add_edge(bar_cpp, dax_h, g), then a fresh flag and a fresh search; on the
\* small graphs the added edge is any edge
AddEdge(u, v) ==
    /\ fpc = "add"
    /\ g_n = N => (u = bar_cpp /\ v = dax_h)
    /\ g_edges' = Append(g_edges, <<u, v>>)
    /\ has_cycle' = FALSE
    /\ color' = [w \in Vertices(g_n) |-> "white"]
    /\ fpc' = "cyc"
    /\ UNCHANGED <<circVars, answers, n, ringVars, dijVars, bacVars, reads, g_n, stack,
                   make_order, out_order, i_ref, time, sched_pos>>

InitCycle == n = 0 /\ RingIdle /\ DijIdle /\ CycInit /\ BacIdle /\ CircIdle

NextCycle ==
    \/ CycRoot
    \/ CycTreeEdge
    \/ CycBackEdge
    \/ CycOtherEdge
    \/ CycFinish
    \/ CycReturn
    \/ \E u, v \in Vertices(g_n) : AddEdge(u, v)

SpecCycle == InitCycle /\ [][NextCycle]_vars

\* C13: when a search with the cycle_detector has returned, has_cycle is true
\* exactly if the graph has a directed cycle, and the flag is never set on a
\* graph without one; on the file-dependency graph the first answer is false
\* and the answer after add_edge(bar_cpp, dax_h, g) is true.
C13_HasCycleIffCycle ==
    /\ has_cycle => HasCycle
    /\ fpc \in {"add", "end"} =>
          /\ has_cycle <=> HasCycle
          /\ answers[Len(answers)] = has_cycle
    /\ (g_n = N /\ fpc = "add") => answers = <<FALSE>>
    /\ (g_n = N /\ fpc = "end") => answers = <<FALSE, TRUE>>

\* C13 witness: both searches on the file-dependency graph are over, the
\* second one after the edge from bar.cpp to dax.h was added.
C13_Witness ==
    /\ g_n = N
    /\ fpc = "end"
    /\ g_edges[Len(g_edges)] = <<bar_cpp, dax_h>>
    /\ answers = <<FALSE, TRUE>>

-----------------------------------------------------------------------------
(* kevin-bacon: the actor graph is built from the lines of the data file,  *)
(* then a breadth-first search from Kevin Bacon records the Bacon numbers.  *)
(* The graph (adjacency_list, undirected) and breadth_first_search follow   *)
(* their descriptions: add_vertex appends and returns the new index,        *)
(* add_edge appends an edge shown in the incidence lists of both endpoints, *)
(* the search takes vertices from a queue and raises a tree-edge event for  *)
(* every edge to an undiscovered vertex.                                    *)

Names == {"Kevin Bacon", "A", "B", "C"}
Movies == {"M"}

Lines == [actor : Names, movie : Movies, co : Names]

num_vertices_b == Len(actor_name)

\* add_vertex(g) with the name property set: the new vertex is the old count
add_vertex(names, name) == Append(names, name)

\* add_edge(u, v, g) with the movie: appended, inserted
add_edge(es, u, v, movie) == Append(es, [u |-> u, v |-> v, movie |-> movie])

\* actors.insert(name, Vertex()) and what follows: the map, the names of
\* the vertices and the vertex for name
LookupOrInsert(map, names, name) ==
    IF name \in DOMAIN map
    THEN [map |-> map, names |-> names, v |-> map[name]]
    ELSE [map |-> map @@ (name :> Len(names)),
          names |-> add_vertex(names, name),
          v |-> Len(names)]

BacInit ==
    /\ records \in UNION {[1 .. k -> Lines] : k \in 0 .. MaxRec}
    /\ rec_pos = 0
    /\ actors = <<>>
    /\ actor_name = <<>>
    /\ b_edges = <<>>
    /\ bpc = "read"
    /\ bacon_number = <<>>
    /\ src = 0
    /\ b_color = <<>>
    /\ b_queue = <<>>
    /\ b_cur = [u |-> 0, pos |-> 0]
    /\ tree_count = <<>>

\* one round of the loop over the lines of the file
ReadLine ==
    /\ bpc = "read"
    /\ rec_pos < Len(records)
    /\ LET line == records[rec_pos + 1]
           a == LookupOrInsert(actors, actor_name, line.actor)
           c == LookupOrInsert(a.map, a.names, line.co)
       IN  /\ actors' = c.map
           /\ actor_name' = c.names
           /\ b_edges' = add_edge(b_edges, a.v, c.v, line.movie)
    /\ rec_pos' = rec_pos + 1
    /\ UNCHANGED <<cycVars, circVars, n, ringVars, dijVars, depVars, reads, records, bpc,
                   bacon_number, src, b_color, b_queue, b_cur, tree_count>>

\* actors["Kevin Bacon"]: the mapped vertex, a new entry for vertex 0 if absent
KevinBacon == IF "Kevin Bacon" \in DOMAIN actors THEN actors["Kevin Bacon"] ELSE 0

\* end of file: bacon_number(num_vertices(g)), src, bacon_number[src] = 0,
\* and the entry of breadth_first_search: all white, the source discovered
StartSearch ==
    /\ bpc = "read"
    /\ rec_pos = Len(records)
    /\ KevinBacon < num_vertices_b
    /\ actors' = actors @@ ("Kevin Bacon" :> 0)
    /\ src' = KevinBacon
    /\ bacon_number' = [[v \in Vertices(num_vertices_b) |-> 0] EXCEPT ![KevinBacon] = 0]
    /\ b_color' = [v \in Vertices(num_vertices_b) |->
                      IF v = KevinBacon THEN "gray" ELSE "white"]
    /\ b_queue' = <<KevinBacon>>
    /\ tree_count' = [v \in Vertices(num_vertices_b) |-> 0]
    /\ bpc' = "queue"
    /\ UNCHANGED <<cycVars, circVars, n, ringVars, dijVars, depVars, reads, records, rec_pos,
                   actor_name, b_edges, b_cur>>

\* end of an empty file: bacon_number[src] is outside the empty vector
StartOutOfRange ==
    /\ bpc = "read"
    /\ rec_pos = Len(records)
    /\ KevinBacon >= num_vertices_b
    /\ actors' = actors @@ ("Kevin Bacon" :> 0)
    /\ bpc' = "crashed"
    /\ UNCHANGED <<cycVars, circVars, n, ringVars, dijVars, depVars, reads, records, rec_pos,
                   actor_name, b_edges, bacon_number, src, b_color, b_queue,
                   b_cur, tree_count>>

RECURSIVE TargetsOf(_, _, _)
\* targets of the out-edges of u among the edges es[k..], in insertion order
TargetsOf(es, k, u) ==
    IF k > Len(es) THEN <<>>
    ELSE (IF es[k].u = u THEN <<es[k].v>> ELSE <<>>)
         \o (IF es[k].v = u THEN <<es[k].u>> ELSE <<>>)
         \o TargetsOf(es, k + 1, u)

BTargets(u) == TargetsOf(b_edges, 1, u)

\* bacon_number_recorder::tree_edge with d[v] = d[v] + 1
tree_edge_self(d, u, v) == [d EXCEPT ![v] = d[v] + 1]
\* bacon_number_recorder::tree_edge
tree_edge(d, u, v) == [d EXCEPT ![v] = d[u] + 1]

\* take the next vertex from the queue
ExamineVertex ==
    /\ bpc = "queue"
    /\ b_queue # <<>>
    /\ b_cur' = [u |-> Head(b_queue), pos |-> 1]
    /\ b_queue' = Tail(b_queue)
    /\ bpc' = "edges"
    /\ UNCHANGED <<cycVars, circVars, n, ringVars, dijVars, depVars, reads, records, rec_pos,
                   actors, actor_name, b_edges, bacon_number, src, b_color,
                   tree_count>>

BEdgeLeft == b_cur.pos <= Len(BTargets(b_cur.u))
BTarget == BTargets(b_cur.u)[b_cur.pos]

\* an edge to an undiscovered vertex: tree_edge event, the target is queued
BfsTreeEdge ==
    /\ bpc = "edges"
    /\ BEdgeLeft
    /\ b_color[BTarget] = "white"
    /\ bacon_number' = tree_edge(bacon_number, b_cur.u, BTarget)
    /\ tree_count' = [tree_count EXCEPT ![BTarget] = tree_count[BTarget] + 1]
    /\ b_color' = [b_color EXCEPT ![BTarget] = "gray"]
    /\ b_queue' = Append(b_queue, BTarget)
    /\ b_cur' = [b_cur EXCEPT !.pos = b_cur.pos + 1]
    /\ UNCHANGED <<cycVars, circVars, n, ringVars, dijVars, depVars, reads, records, rec_pos,
                   actors, actor_name, b_edges, bpc, src>>

\* an edge to a vertex already discovered
BfsNonTreeEdge ==
    /\ bpc = "edges"
    /\ BEdgeLeft
    /\ b_color[BTarget] # "white"
    /\ b_cur' = [b_cur EXCEPT !.pos = b_cur.pos + 1]
    /\ UNCHANGED <<cycVars, circVars, n, ringVars, dijVars, depVars, reads, records, rec_pos,
                   actors, actor_name, b_edges, bpc, bacon_number, src,
                   b_color, b_queue, tree_count>>

\* the out-edges of the vertex are exhausted
FinishVertex ==
    /\ bpc = "edges"
    /\ ~BEdgeLeft
    /\ b_color' = [b_color EXCEPT ![b_cur.u] = "black"]
    /\ bpc' = "queue"
    /\ UNCHANGED <<cycVars, circVars, n, ringVars, dijVars, depVars, reads, records, rec_pos,
                   actors, actor_name, b_edges, bacon_number, src, b_queue,
                   b_cur, tree_count>>

\* the queue is empty: the search returns and the Bacon numbers are printed
SearchReturn ==
    /\ bpc = "queue"
    /\ b_queue = <<>>
    /\ bpc' = "done"
    /\ UNCHANGED <<cycVars, circVars, n, ringVars, dijVars, depVars, reads, records, rec_pos,
                   actors, actor_name, b_edges, bacon_number, src, b_color,
                   b_queue, b_cur, tree_count>>

InitBacon == n = 0 /\ RingIdle /\ DijIdle /\ DepIdle /\ BacInit /\ CycIdle /\ CircIdle

NextBacon ==
    \/ ReadLine
    \/ StartSearch
    \/ StartOutOfRange
    \/ ExamineVertex
    \/ BfsTreeEdge
    \/ BfsNonTreeEdge
    \/ FinishVertex
    \/ SearchReturn

SpecBacon == InitBacon /\ [][NextBacon]_vars

-----------------------------------------------------------------------------
(* Properties of the actor graph and of the Bacon numbers *)

\* vertices joined to a vertex of S by an edge of the actor graph
BNeighbours(S) ==
    {b_edges[k].v : k \in {j \in 1 .. Len(b_edges) : b_edges[j].u \in S}}
    \cup {b_edges[k].u : k \in {j \in 1 .. Len(b_edges) : b_edges[j].v \in S}}

RECURSIVE HopsFrom(_, _, _, _)
\* least number of edges from the vertices of S to v, plus k; -1 if none
HopsFrom(S, seen, k, v) ==
    IF v \in S THEN k
    ELSE IF S = {} THEN 0 - 1
    ELSE HopsFrom(BNeighbours(S) \ (seen \cup S), seen \cup S, k + 1, v)

Hops(v) == HopsFrom({src}, {}, 0, v)

Searching == bpc \in {"queue", "edges", "done"}

\* C11: each vertex other than the source that is reachable from it gets
\* exactly one tree-edge event, no vertex gets more, a discovered vertex
\* (so the source of every tree edge) holds its final distance, and on
\* completion distance[v] is the least number of edges from the source to v.
C11_BfsHopDistances ==
    Searching =>
        /\ tree_count[src] = 0
        /\ \A v \in Vertices(num_vertices_b) :
              /\ tree_count[v] <= 1
              /\ (v # src /\ b_color[v] # "white") <=> tree_count[v] = 1
              /\ b_color[v] # "white" => bacon_number[v] = Hops(v)
        /\ bpc = "done" =>
              \A v \in Vertices(num_vertices_b) :
                  Hops(v) >= 0 => (b_color[v] = "black" /\ bacon_number[v] = Hops(v))

\* C11 witness: the search is over and some vertex was reached over two
\* tree edges.
C11_Witness ==
    /\ bpc = "done"
    /\ \E v \in Vertices(num_vertices_b) : bacon_number[v] = 2 /\ tree_count[v] = 1

\* a number of edges that a path in the graph can have
IsHopCount(x) == x \in 0 .. (num_vertices_b - 1)

\* C12: after the search every vertex not reachable from the source was
\* never written by a tree-edge event and its distance entry is no finite
\* hop count.
C12_UnreachableStayUnset ==
    bpc = "done" =>
        \A v \in Vertices(num_vertices_b) :
            Hops(v) < 0 => (tree_count[v] = 0 /\ ~IsHopCount(bacon_number[v]))

\* the names and pairs on the lines read so far
NamesRead == UNION {{records[k].actor, records[k].co} : k \in 1 .. rec_pos}
PairsRead == {{records[k].actor, records[k].co} : k \in 1 .. rec_pos}

RECURSIVE FirstAppearances(_)
\* the distinct names on the first k lines, in the order they first appear
FirstAppearances(k) ==
    IF k = 0 THEN <<>>
    ELSE LET before == FirstAppearances(k - 1)
             withActor == IF records[k].actor \in SeqRange(before)
                          THEN before ELSE Append(before, records[k].actor)
         IN  IF records[k].co \in SeqRange(withActor)
             THEN withActor ELSE Append(withActor, records[k].co)

\* the vertex part of C15: one vertex per distinct name, the map injective
\* and as large as the graph, indices dense in first-appearance order
OneVertexPerName ==
    bpc = "read" =>
        /\ DOMAIN actors = NamesRead
        /\ Cardinality(NamesRead) = num_vertices_b
        /\ \A x, y \in DOMAIN actors : actors[x] = actors[y] => x = y
        /\ actor_name = FirstAppearances(rec_pos)
        /\ \A x \in DOMAIN actors : actor_name[actors[x] + 1] = x

\* C15: after any sequence of lines the graph has one vertex per distinct
\* name (injective map of the size of the graph, dense indices in
\* first-appearance order) and one edge per distinct pair of co-appearing
\* actors, also when a pair is on several lines.
C15_OneVertexPerNameOneEdgePerPair ==
    /\ OneVertexPerName
    /\ bpc = "read" => Len(b_edges) = Cardinality(PairsRead)

-----------------------------------------------------------------------------
(* Elementary circuits: hawick_circuits and hawick_unique_circuits as
   test/hawick_circuits.cpp calls them *)

RECURSIVE SortedSeq(_)
\* the numbers of S in increasing order
SortedSeq(S) == IF S = {} THEN <<>> ELSE <<Least(S)>> \o SortedSeq(S \ {Least(S)})

\* targets of the arcs that leave v, one per arc, in insertion order
AllAdjacent(v) ==
    LET out == SelectSeq(c_edges, LAMBDA e : source(e) = v)
    IN  [k \in 1 .. Len(out) |-> target(out[k])]

\* the vertices adjacent to v as the mode sees them: one per arc for
\* hawick_circuits, each vertex once for hawick_unique_circuits
CAdj(v) ==
    IF c_mode = "all" THEN AllAdjacent(v) ELSE SortedSeq(SeqRange(AllAdjacent(v)))

\* a search that looks at every vertex in every round
InRoundAny(w) == TRUE
\* a round looks only at vertices whose index is not below the start vertex
InRound(w) == w >= c_start

RECURSIVE Unblock(_, _)
RECURSIVE DrainClosed(_, _)
\* unblock u, then every blocked vertex that was closed to u
Unblock(st, u) == DrainClosed([st EXCEPT !.blocked = @ \ {u}], u)
DrainClosed(st, u) ==
    IF st.closed[u] = <<>> THEN st
    ELSE LET w == st.closed[u][Len(st.closed[u])]
             popped == [st EXCEPT !.closed[u] = SubSeq(@, 1, Len(@) - 1)]
         IN  DrainClosed(IF w \in popped.blocked THEN Unblock(popped, w) ELSE popped, u)

RECURSIVE CloseTo(_, _, _, _)
\* no circuit through v: v is closed to each vertex adjacent to it
CloseTo(closed, adj, k, v) ==
    IF k > Len(adj) THEN closed
    ELSE IF ~InRound(adj[k]) \/ v \in SeqRange(closed[adj[k]])
         THEN CloseTo(closed, adj, k + 1, v)
         ELSE CloseTo([closed EXCEPT ![adj[k]] = Append(@, v)], adj, k + 1, v)

NothingClosed == [v \in Vertices(c_n) |-> <<>>]

\* the sorted lists of at most MaxE arcs over MaxV vertices
SortedArcLists ==
    {l \in SmallEdgeLists :
        \A k \in 1 .. Len(l) - 1 :
            \/ l[k][1] < l[k + 1][1]
            \/ l[k][1] = l[k + 1][1] /\ l[k][2] <= l[k + 1][2]}

CircInit ==
    /\ c_n = MaxV
    /\ c_edges \in SortedArcLists
    /\ c_mode \in {"all", "unique"}
    /\ c_start = 0
    /\ c_stack = <<>>
    /\ c_blocked = {}
    /\ c_closed = NothingClosed
    /\ c_out = <<>>
    /\ cpc = "run"

CircTop == c_stack[Len(c_stack)]
CircHasNext == c_stack # <<>> /\ CircTop.pos <= Len(CAdj(CircTop.v))
CircNext == CAdj(CircTop.v)[CircTop.pos]
CircPath == [k \in 1 .. Len(c_stack) |-> c_stack[k].v]

\* a round begins: circuit(start, start) pushes and blocks the start vertex
CircStart ==
    /\ cpc = "run"
    /\ c_stack = <<>>
    /\ c_start < c_n
    /\ c_stack' = <<[v |-> c_start, pos |-> 1, found |-> FALSE]>>
    /\ c_blocked' = {c_start}
    /\ UNCHANGED <<cycVars, n, ringVars, dijVars, depVars, reads, bacVars,
                   c_n, c_edges, c_mode, c_start, c_closed, c_out, cpc>>

\* an adjacent vertex outside the round is passed over
CircSkip ==
    /\ cpc = "run"
    /\ CircHasNext
    /\ ~InRound(CircNext)
    /\ c_stack' = [c_stack EXCEPT ![Len(c_stack)].pos = @ + 1]
    /\ UNCHANGED <<cycVars, n, ringVars, dijVars, depVars, reads, bacVars,
                   c_n, c_edges, c_mode, c_start, c_blocked, c_closed, c_out, cpc>>

\* the start vertex is adjacent: the path is a circuit and is reported
CircReport ==
    /\ cpc = "run"
    /\ CircHasNext
    /\ InRound(CircNext)
    /\ CircNext = c_start
    /\ c_out' = Append(c_out, CircPath)
    /\ c_stack' = [c_stack EXCEPT ![Len(c_stack)].pos = @ + 1,
                                  ![Len(c_stack)].found = TRUE]
    /\ UNCHANGED <<cycVars, n, ringVars, dijVars, depVars, reads, bacVars,
                   c_n, c_edges, c_mode, c_start, c_blocked, c_closed, cpc>>

\* an adjacent vertex that is not blocked: circuit(start, w)
CircDescend ==
    /\ cpc = "run"
    /\ CircHasNext
    /\ InRound(CircNext)
    /\ CircNext # c_start
    /\ CircNext \notin c_blocked
    /\ c_stack' = Append([c_stack EXCEPT ![Len(c_stack)].pos = @ + 1],
                         [v |-> CircNext, pos |-> 1, found |-> FALSE])
    /\ c_blocked' = c_blocked \cup {CircNext}
    /\ UNCHANGED <<cycVars, n, ringVars, dijVars, depVars, reads, bacVars,
                   c_n, c_edges, c_mode, c_start, c_closed, c_out, cpc>>

\* an adjacent vertex that is blocked is passed over
CircBlocked ==
    /\ cpc = "run"
    /\ CircHasNext
    /\ InRound(CircNext)
    /\ CircNext # c_start
    /\ CircNext \in c_blocked
    /\ c_stack' = [c_stack EXCEPT ![Len(c_stack)].pos = @ + 1]
    /\ UNCHANGED <<cycVars, n, ringVars, dijVars, depVars, reads, bacVars,
                   c_n, c_edges, c_mode, c_start, c_blocked, c_closed, c_out, cpc>>

\* circuit(start, v) returns: unblock v if a circuit went through it, close
\* it otherwise; the caller learns whether a circuit was found
CircReturn ==
    /\ cpc = "run"
    /\ Len(c_stack) > 1
    /\ ~CircHasNext
    /\ LET st == IF CircTop.found
                 THEN Unblock([blocked |-> c_blocked, closed |-> c_closed], CircTop.v)
                 ELSE [blocked |-> c_blocked,
                       closed |-> CloseTo(c_closed, CAdj(CircTop.v), 1, CircTop.v)]
           below == Len(c_stack) - 1
       IN  /\ c_blocked' = st.blocked
           /\ c_closed' = st.closed
           /\ c_stack' = [SubSeq(c_stack, 1, below) EXCEPT
                             ![below].found = @ \/ CircTop.found]
    /\ UNCHANGED <<cycVars, n, ringVars, dijVars, depVars, reads, bacVars,
                   c_n, c_edges, c_mode, c_start, c_out, cpc>>

\* the round of a start vertex is over: stack, closed lists and blocked
\* flags are cleared and the next vertex becomes the start
CircRoundEnd ==
    /\ cpc = "run"
    /\ Len(c_stack) = 1
    /\ ~CircHasNext
    /\ c_stack' = <<>>
    /\ c_blocked' = {}
    /\ c_closed' = NothingClosed
    /\ c_start' = c_start + 1
    /\ UNCHANGED <<cycVars, n, ringVars, dijVars, depVars, reads, bacVars,
                   c_n, c_edges, c_mode, c_out, cpc>>

\* every vertex has been the start vertex
CircDone ==
    /\ cpc = "run"
    /\ c_stack = <<>>
    /\ c_start = c_n
    /\ cpc' = "done"
    /\ UNCHANGED <<cycVars, n, ringVars, dijVars, depVars, reads, bacVars,
                   c_n, c_edges, c_mode, c_start, c_stack, c_blocked, c_closed, c_out>>

InitCircuits == n = 0 /\ RingIdle /\ DijIdle /\ DepIdle /\ BacIdle /\ CycIdle /\ CircInit

NextCircuits ==
    \/ CircStart
    \/ CircSkip
    \/ CircReport
    \/ CircDescend
    \/ CircBlocked
    \/ CircReturn
    \/ CircRoundEnd
    \/ CircDone

SpecCircuits == InitCircuits /\ [][NextCircuits]_vars

-----------------------------------------------------------------------------
(* Properties of the circuit enumeration *)

\* the vertex after position k of a closed walk over the vertices of p
NextOn(p, k) == p[(k % Len(p)) + 1]

\* the simple cycles of the graph as sequences of arcs, each written from
\* its vertex of least index: consecutive arcs, no vertex left twice
ArcCycles ==
    {a \in UNION {[1 .. k -> 1 .. Len(c_edges)] : k \in 1 .. c_n} :
        /\ \A k \in 1 .. Len(a) : target(c_edges[a[k]]) = source(c_edges[NextOn(a, k)])
        /\ \A j, k \in 1 .. Len(a) :
              source(c_edges[a[j]]) = source(c_edges[a[k]]) => j = k
        /\ \A k \in 1 .. Len(a) : source(c_edges[a[1]]) <= source(c_edges[a[k]])}

\* the vertices a cycle of arcs goes through, in order
VerticesOn(a) == [k \in 1 .. Len(a) |-> source(c_edges[a[k]])]

VertexCycles == {VerticesOn(a) : a \in ArcCycles}

\* the graph has exactly one simple cycle
OneSimpleCycle == Cardinality(ArcCycles) = 1
TheCycle == VerticesOn(CHOOSE a \in ArcCycles : TRUE)

\* every simple cycle is reported once per way of going round it: once per
\* choice of arcs in "all" mode, once per vertex sequence in "unique" mode
EachCircuitOnce ==
    cpc = "done" =>
        /\ SeqRange(c_out) = VertexCycles
        /\ c_mode = "all" => Len(c_out) = Cardinality(ArcCycles)
        /\ c_mode = "unique" => Len(c_out) = Cardinality(VertexCycles)

=============================================================================
